---- MODULE Spec2Model ----
(***************************************************************************)
(* Verification model of cookie-bot: the SceneContent generation effect    *)
(* (src/components/Viewer3D.tsx) and the mesh generator it calls           *)
(* (src/unnamed/part_000: generateSilhouetteShape, createBasePlate,        *)
(* createCutterFrame, createStampGeometry).                                *)
(*                                                                         *)
(* Units.  Settings lengths are integers in tenths of a millimetre (the    *)
(* sliders step by 0.2, 0.5 and 1 mm).  Tracing-space lengths are canvas   *)
(* pixels.  A geometry keeps its planar bounding box as integer numerators *)
(* x0,x1,y0,y1 over one positive denominator den, so that the scale        *)
(* factors of the code (quotients) are exact; z0,z1 are its extent on the  *)
(* build axis.                                                             *)
(*                                                                         *)
(* Images.  A source image is a row of grey pixels, each given by the      *)
(* average of its three colour channels (what both binarization loops      *)
(* compute first).                                                         *)
(***************************************************************************)
EXTENDS Integers, Sequences, FiniteSets, TLC

\* ------------------------------------------------------------------ bounds
\* Number of runs of the generate effect (generation requests) explored.
MaxReq == 2
\* Longest contour set handed to the largest-area selection.
MaxShapes == 3
\* Widest image (in pixels) whose masks are computed pass by pass.
MaxPixels == 3
\* Number of clicks on Export STL explored.
MaxClicks == 2

\* ------------------------------------------------------- program constants
PROCESS_RES == 1200
ContentCutoff == 200
cutThreshold == 240
\* The sliders of App: wall thickness 0.4 .. 5.0 mm in steps of 0.2 (tenths of
\* a millimetre here), width 30 .. 150 mm.
FrameThicknessMin == 4
FrameThicknessMax == 50
FrameThicknessStep == 2
WidthMinMm == 30
WidthMaxMm == 150

\* ---------------------------------------------------------------- numbers
Abs(n) == IF n < 0 THEN 0 - n ELSE n

Min2(a, b) == IF a < b THEN a ELSE b

Max2(a, b) == IF a > b THEN a ELSE b

RECURSIVE Gcd(_, _)
Gcd(a, b) == IF b = 0 THEN Abs(a) ELSE Gcd(b, a % Abs(b))

\* ------------------------------------------------------------ CutterSettings
Shapes == {"rectangle", "circle", "outline"}

\* The defaults of App (90 x 90 mm, outline, threshold 160, not inverted).
DefaultSettings ==
  [width |-> 900, height |-> 900, baseThickness |-> 20, detailHeight |-> 35,
   invert |-> FALSE, threshold |-> 160, smoothing |-> 0, shape |-> "outline",
   frameThickness |-> 20, frameHeight |-> 80]

\* ------------------------------------------------------------------ images
White == <<255, 255, 255>>
Dot == <<255, 0, 255>>
Grey == <<180, 255, 255>>
Blobs == <<0, 255, 0, 0>>

\* What a 2D context's white fill followed by drawImage leaves in the canvas:
\* the image resampled to PROCESS_RES pixels across, one block per source pixel.
BlockSize(img) == PROCESS_RES \div Len(img)

\* canvas.height = PROCESS_RES * aspect, aspect = img.height / img.width, for
\* an image one pixel high.
CanvasHeight(img) == PROCESS_RES \div Len(img)

\* --------------------------------------------------------------- geometry
NoGeometry == [empty |-> TRUE, kind |-> "null"]

\* new THREE.BufferGeometry(): no vertices, so nothing to bound, scale or move.
EmptyGeometry ==
  [empty |-> TRUE, kind |-> "empty", x0 |-> 0, x1 |-> 0, y0 |-> 0, y1 |-> 0,
   den |-> 1, z0 |-> 0, z1 |-> 0]

Reduce(g) ==
  LET d == Gcd(Gcd(Gcd(g.x0, g.x1), Gcd(g.y0, g.y1)), g.den)
  IN  IF d <= 1 THEN g
      ELSE [g EXCEPT !.x0 = g.x0 \div d, !.x1 = g.x1 \div d,
                     !.y0 = g.y0 \div d, !.y1 = g.y1 \div d,
                     !.den = g.den \div d]

\* geometry.scale(num/den, num/den, 1) for a positive factor.
ScaleXY(g, num, den) ==
  IF g.empty THEN g
  ELSE Reduce([g EXCEPT !.x0 = g.x0 * num, !.x1 = g.x1 * num,
                        !.y0 = g.y0 * num, !.y1 = g.y1 * num,
                        !.den = g.den * den])

\* geometry.scale(1, -1, 1)
ScaleYNeg(g) ==
  IF g.empty THEN g ELSE [g EXCEPT !.y0 = 0 - g.y1, !.y1 = 0 - g.y0]

\* boundingBox.getCenter followed by translate(-center.x, -center.y, 0)
CentreXY(g) ==
  IF g.empty THEN g
  ELSE Reduce([g EXCEPT !.x0 = g.x0 - g.x1, !.x1 = g.x1 - g.x0,
                        !.y0 = g.y0 - g.y1, !.y1 = g.y1 - g.y0,
                        !.den = 2 * g.den])

\* ------------------------------------------------------------- contours
\* A contour (THREE.Shape outline) is its point list; <<>> stands for "no
\* shape" (null / undefined).
NoShape == <<>>

Xs(points) == {points[i][1] : i \in 1..Len(points)}

Ys(points) == {points[i][2] : i \in 1..Len(points)}

SetMin(S) == CHOOSE m \in S : \A n \in S : m <= n

SetMax(S) == CHOOSE m \in S : \A n \in S : m >= n

\* THREE.ShapeUtils.area: half the shoelace sum, signed by winding.  The
\* contours of the model have even coordinates, so the half is exact.
RECURSIVE ShoelaceFrom(_, _)
ShoelaceFrom(c, q) ==
  IF q > Len(c) THEN 0
  ELSE LET p == IF q = 1 THEN Len(c) ELSE q - 1
       IN  (c[p][1] * c[q][2] - c[q][1] * c[p][2]) + ShoelaceFrom(c, q + 1)

ShapeUtilsArea(contour) == ShoelaceFrom(contour, 1) \div 2

\* ------------------------------------------------- raster passes (part_000)
\* A pass 1 with its comparison turned round.
BinarizeBaseInverted(img) ==
  [i \in 1..Len(img) |-> IF img[i] >= ContentCutoff THEN 0 ELSE 255]

\* PASS 1: "Make the content solid black".
BinarizeBase(img) ==
  [i \in 1..Len(img) |-> IF img[i] < ContentCutoff THEN 0 ELSE 255]

\* A draw that leaves the destination as it was (the blank canvas drawn in
\* place of the pass-1 canvas).
DrawImageBlank(dest, src) == dest

\* One tCtx.drawImage(canvas, 0, 0) with a shadow set.  A canvas shadow is
\* cast by the alpha of what is drawn and composited below it; the drawn
\* canvas is opaque everywhere (white fill, alpha never written in pass 1),
\* so inside the canvas every destination pixel is replaced by the source's.
DrawImageWithShadow(dest, src) ==
  [i \in 1..Len(dest) |-> src[i]]

\* PASS 2: white fill, then three shadowed draws of the pass-1 canvas.
DilatePass(canvas) ==
  LET white == [i \in 1..Len(canvas) |-> 255]
  IN  DrawImageWithShadow(
        DrawImageWithShadow(DrawImageWithShadow(white, canvas), canvas), canvas)

\* PASS 3: "Cut high into the blur".
CutterThresholdPass(bData) ==
  [i \in 1..Len(bData) |-> IF bData[i] < cutThreshold THEN 0 ELSE 255]

\* The thresholding loop of createStampGeometry.
StampThreshold(img, settings) ==
  [i \in 1..Len(img) |->
     LET isDark == img[i] < settings.threshold
         isSolid == IF settings.invert THEN ~isDark ELSE isDark
     IN  IF isSolid THEN 0 ELSE 255]

\* ContentPixels: the pixels a two-tone bitmap classifies as content.
ContentPixels(mask) == {i \in 1..Len(mask) : mask[i] = 0}

\* The vector tracer (imagetracerjs + SVGLoader, outside the repository),
\* by its contract: closed contours around the content regions of a
\* two-tone bitmap, none for a uniform background, the same result for the
\* same bitmap.  Here: one rectangle per maximal run of content pixels, in
\* left-to-right encounter order.
RECURSIVE TraceFrom(_, _, _, _)
TraceFrom(mask, i, start, img) ==
  LET b == BlockSize(img)
      h == CanvasHeight(img)
      Rect(a, z) == <<<<(a - 1) * b, 0>>, <<z * b, 0>>, <<z * b, h>>, <<(a - 1) * b, h>>>>
  IN  IF i > Len(mask)
      THEN IF start = 0 THEN <<>> ELSE <<Rect(start, Len(mask))>>
      ELSE IF mask[i] = 0
           THEN TraceFrom(mask, i + 1, IF start = 0 THEN i ELSE start, img)
           ELSE IF start = 0 THEN TraceFrom(mask, i + 1, 0, img)
                ELSE <<Rect(start, i - 1)>> \o TraceFrom(mask, i + 1, 0, img)

Trace(mask, img) == TraceFrom(mask, 1, 0, img)

\* ------------------------------------------- largest shape (part_000:123-134)
\* History: per run of generate, what getContext answered and the silhouette
\* the run got.
VARIABLE seen

\* The forEach loop: bestShape starts as shapes[0], maxArea as 0, and a shape
\* replaces bestShape only when its unsigned area is strictly greater.
RECURSIVE LargestFrom(_, _, _, _)
LargestFrom(shapes, i, bestShape, maxArea) ==
  IF i > Len(shapes) THEN bestShape
  ELSE LET area == Abs(ShapeUtilsArea(shapes[i]))
       IN  IF area > maxArea
           THEN LargestFrom(shapes, i + 1, shapes[i], area)
           ELSE LargestFrom(shapes, i + 1, bestShape, maxArea)

\* The same loop with >= for >: a later shape of equal area replaces the
\* earlier one.
RECURSIVE LargestFromLastWins(_, _, _, _)
LargestFromLastWins(shapes, i, bestShape, maxArea) ==
  IF i > Len(shapes) THEN bestShape
  ELSE LET area == Abs(ShapeUtilsArea(shapes[i]))
       IN  IF area >= maxArea
           THEN LargestFromLastWins(shapes, i + 1, shapes[i], area)
           ELSE LargestFromLastWins(shapes, i + 1, bestShape, maxArea)

LargestShapeLastWins(shapes) ==
  IF Len(shapes) = 0 THEN NoShape
  ELSE LargestFromLastWins(shapes, 1, shapes[1], 0)

\* A selection whose maxArea is declared outside the function, so that a call
\* starts from the largest area the calls before it have found.
LargestShapeKeepingMaxArea(shapes) ==
  LET areas == {Abs(ShapeUtilsArea(seen[r].shape)) :
                  r \in {q \in DOMAIN seen : seen[q].shape # NoShape}}
  IN  IF Len(shapes) = 0 THEN NoShape
      ELSE LargestFrom(shapes, 1, shapes[1], IF areas = {} THEN 0 ELSE SetMax(areas))

\* The tail of generateSilhouetteShape: null for an empty contour set, else
\* the result of the loop.
LargestShape(shapes) ==
  IF Len(shapes) = 0 THEN NoShape
  ELSE LargestFrom(shapes, 1, shapes[1], 0)

\* A base mask made the way the relief is: by settings.threshold and
\* settings.invert.
SilhouetteMaskFromRelief(img, settings) == StampThreshold(img, settings)

\* Lines 56-68: the base mask of the silhouette pass.  The cut-off is the
\* literal 200 and nothing is inverted: settings is a parameter of
\* generateSilhouetteShape (line 40) that its body never reads.
SilhouetteMask(img, settings) == BinarizeBase(img)

\* generateSilhouetteShape after its image has loaded; ctx is whether the
\* two getContext('2d') calls return a context.
generateSilhouetteShape(img, settings, ctx) ==
  IF ~ctx THEN NoShape
  ELSE LargestShape(
         Trace(CutterThresholdPass(DilatePass(SilhouetteMask(img, settings))), img))

\* ------------------------------------------------------------ solid builders
\* The build-axis extent of new THREE.ExtrudeGeometry(shape, {depth}).
ExtrudeZ0(depth) == Min2(0, depth)

ExtrudeZ1(depth) == Max2(0, depth)

\* The planar bounding box of a set of contours, as a geometry record.
Extruded(kind, shapes, depth) ==
  LET xs == UNION {Xs(shapes[i]) : i \in 1..Len(shapes)}
      ys == UNION {Ys(shapes[i]) : i \in 1..Len(shapes)}
  IN  [empty |-> FALSE, kind |-> kind,
       x0 |-> SetMin(xs), x1 |-> SetMax(xs), y0 |-> SetMin(ys), y1 |-> SetMax(ys),
       den |-> 1, z0 |-> ExtrudeZ0(depth), z1 |-> ExtrudeZ1(depth)]

\* A translate that is left out.
TranslateZNot(g, dz) == g

\* geometry.translate(0, 0, dz)
TranslateZ(g, dz) == [g EXCEPT !.z0 = g.z0 + dz, !.z1 = g.z1 + dz]

\* createStampGeometry after its image has loaded; ctx is whether
\* getContext('2d') returns a context.
createStampGeometry(img, settings, ctx) ==
  IF ~ctx THEN EmptyGeometry
  ELSE LET shapes == Trace(StampThreshold(img, settings), img)
       IN  IF Len(shapes) = 0 THEN EmptyGeometry
           ELSE ScaleYNeg(Extruded("stamp", shapes, settings.detailHeight))

\* A plate with width and height exchanged.
CentredPlateSwapped(kind, w, h, thickness) ==
  [empty |-> FALSE, kind |-> kind,
   x0 |-> 0 - h, x1 |-> h, y0 |-> 0 - w, y1 |-> w, den |-> 2,
   z0 |-> Min2(0 - thickness, 0), z1 |-> Max2(0 - thickness, 0)]

\* A plate left centred on z = 0 (thickness even).
CentredPlateUntranslated(kind, w, h, thickness) ==
  [empty |-> FALSE, kind |-> kind,
   x0 |-> 0 - w, x1 |-> w, y0 |-> 0 - h, y1 |-> h, den |-> 2,
   z0 |-> 0 - Abs(thickness) \div 2, z1 |-> Abs(thickness) \div 2]

\* A width x height x thickness box or a cylinder of radius width / 2, centred
\* on the origin and then moved by -thickness / 2 on the build axis.
CentredPlate(kind, w, h, thickness) ==
  [empty |-> FALSE, kind |-> kind,
   x0 |-> 0 - w, x1 |-> w, y0 |-> 0 - h, y1 |-> h, den |-> 2,
   z0 |-> Min2(0 - thickness, 0), z1 |-> Max2(0 - thickness, 0)]

createBasePlate(settings, outlineShape) ==
  LET thickness == settings.baseThickness
  IN  IF settings.shape = "outline" /\ outlineShape # NoShape
      THEN TranslateZ(Extruded("base-outline", <<outlineShape>>, thickness),
                      0 - thickness)
      ELSE IF settings.shape = "rectangle"
           THEN CentredPlate("box", settings.width, settings.height, thickness)
           ELSE CentredPlate("cylinder", settings.width, settings.width, thickness)

\* A wall scale without the Math.max clamp.
HoleScaleUnclamped(settings) ==
  LET w == settings.width
      t == settings.frameThickness
      d == Gcd(w - 2 * t, w)
  IN  <<(w - 2 * t) \div d, w \div d>>

\* scale = Math.max(0.5, 1 - (2 * frameThickness / width)), as the pair
\* <<numerator, denominator>> in lowest terms (width > 0).
HoleScale(settings) ==
  LET w == settings.width
      t == settings.frameThickness
      d == Gcd(w - 2 * t, w)
  IN  IF 2 * (w - 2 * t) > w THEN <<(w - 2 * t) \div d, w \div d>> ELSE <<1, 2>>

\* Lines 167-170: the point list, closed when its ends differ.
ClosedPoints(points) ==
  IF Len(points) > 0 /\ points[1] # points[Len(points)]
  THEN Append(points, points[1])
  ELSE points

RECURSIVE SumCoord(_, _, _)
SumCoord(points, k, i) ==
  IF i > Len(points) THEN 0 ELSE points[i][k] + SumCoord(points, k, i + 1)

\* Lines 177-188: every point moved towards the centroid (the mean of the
\* point list) by the factor scale = sn / sd.  The hole's coordinates are
\* integers in units of 1 / HoleUnit(points, scale).
HoleUnit(points, scale) == Len(points) * scale[2]

HolePoints(points, scale) ==
  LET n == Len(points)
      sumx == SumCoord(points, 1, 1)
      sumy == SumCoord(points, 2, 1)
  IN  [i \in 1..n |->
         <<sumx * scale[2] + (points[i][1] * n - sumx) * scale[1],
           sumy * scale[2] + (points[i][2] * n - sumy) * scale[1]>>]

\* The point lists of the box and circle walls, in halves of a settings unit:
\* w and h are settings.width and settings.height (twice the code's w and h),
\* t is settings.frameThickness.
\* Lines 208-212: moveTo and four lineTo, ending where it began.
RectangleOuter(w, h, t) ==
  <<<<0 - w - 2 * t, 0 - h - 2 * t>>, <<w + 2 * t, 0 - h - 2 * t>>,
    <<w + 2 * t, h + 2 * t>>, <<0 - w - 2 * t, h + 2 * t>>,
    <<0 - w - 2 * t, 0 - h - 2 * t>>>>

\* A hole drawn with w = settings.width and h = settings.height, not halved.
RectangleHoleNotHalved(w, h) ==
  <<<<0 - 2 * w, 0 - 2 * h>>, <<0 - 2 * w, 2 * h>>, <<2 * w, 2 * h>>,
    <<2 * w, 0 - 2 * h>>, <<0 - 2 * w, 0 - 2 * h>>>>

\* Lines 213-218.
RectangleHole(w, h) ==
  <<<<0 - w, 0 - h>>, <<0 - w, h>>, <<w, h>>, <<w, 0 - h>>, <<0 - w, 0 - h>>>>

\* absarc(0, 0, r, 0, Math.PI * 2, aClockwise) for r = d / 2: the points of
\* the full circle at its quarter turns, from angle 0 back to angle 0.
ArcPoints(d, aClockwise) ==
  IF aClockwise
  THEN <<<<d, 0>>, <<0, 0 - d>>, <<0 - d, 0>>, <<0, d>>, <<d, 0>>>>
  ELSE <<<<d, 0>>, <<0, d>>, <<0 - d, 0>>, <<0, 0 - d>>, <<d, 0>>>>

createCutterFrame(settings, outlineShape) ==
  LET totalHeight == settings.frameHeight + settings.baseThickness
      w == settings.width
      h == settings.height
      t == settings.frameThickness
  IN  IF settings.shape = "outline" /\ outlineShape # NoShape
      THEN LET points == ClosedPoints(outlineShape)
               scale == HoleScale(settings)
               g == TranslateZ(Extruded("wall-outline", <<points>>, totalHeight),
                               0 - settings.baseThickness)
           IN  [empty |-> g.empty, kind |-> g.kind,
                x0 |-> g.x0, x1 |-> g.x1, y0 |-> g.y0, y1 |-> g.y1, den |-> g.den,
                z0 |-> g.z0, z1 |-> g.z1,
                scale |-> scale, outer |-> points,
                holePoints |-> HolePoints(points, scale),
                holeUnit |-> HoleUnit(points, scale)]
      ELSE IF settings.shape = "rectangle"
           THEN [empty |-> FALSE, kind |-> "wall-rectangle",
                 x0 |-> 0 - w - 2 * t, x1 |-> w + 2 * t,
                 y0 |-> 0 - h - 2 * t, y1 |-> h + 2 * t, den |-> 2,
                 z0 |-> ExtrudeZ0(totalHeight) - settings.baseThickness,
                 z1 |-> ExtrudeZ1(totalHeight) - settings.baseThickness,
                 outer |-> RectangleOuter(w, h, t),
                 holePoints |-> RectangleHole(w, h), holeUnit |-> 2]
           ELSE [empty |-> FALSE, kind |-> "wall-circle",
                 x0 |-> 0 - w - 2 * t, x1 |-> w + 2 * t,
                 y0 |-> 0 - w - 2 * t, y1 |-> w + 2 * t, den |-> 2,
                 z0 |-> ExtrudeZ0(totalHeight) - settings.baseThickness,
                 z1 |-> ExtrudeZ1(totalHeight) - settings.baseThickness,
                 outer |-> ArcPoints(w + 2 * t, FALSE),
                 holePoints |-> ArcPoints(w, TRUE), holeUnit |-> 2]

\* ------------------------------------------------- SceneContent (Viewer3D)
\* The module that Viewer3D.tsx imports flipGeometryY from defines and
\* exports createStampGeometry, createCutterFrame, createBasePlate and
\* generateSilhouetteShape only: the imported binding is undefined and
\* calling it throws a TypeError inside generate's try block.
flipGeometryYExported == FALSE

\* What the name says the missing function would do: negate Y in place.
flipGeometryY(g) == ScaleYNeg(g)

NoImage == <<>>

ImagePool == {White, Dot}

SettingsPool ==
  {DefaultSettings,
   [DefaultSettings EXCEPT !.invert = TRUE],
   [DefaultSettings EXCEPT !.shape = "rectangle", !.height = 600],
   [DefaultSettings EXCEPT !.shape = "circle"]}

VARIABLES
  stampGeometry,   \* useState: the displayed relief stamp, or NoGeometry (null)
  frameGeometry,   \* useState: the displayed wall
  baseGeometry,    \* useState: the displayed base plate
  isProcessing,    \* useState
  imageSrc,        \* the imageSrc prop of the latest render
  settings,        \* the settings prop of the latest render
  epoch,           \* how many times the generate effect has run
  req,             \* per effect run: its closure (isMounted, captured props) and progress
  owner,           \* history: which effect run set each displayed slot (0: none)
  reported,        \* history: runs whose error reached console.error
  escaped,         \* history: runs whose error left generate() unhandled
  finished,        \* history: the runs in the order in which they ended
  inp,             \* input of the pure-function specifications
  out,             \* result of the pure-function specifications
  exportTrigger,   \* App useState (line 40), passed to Viewer3D as a prop
  exportDep,       \* the exportTrigger that the export effect last ran with
  exports,         \* history: what each STL serialization found in the group
  clicks,          \* history: how many times handleExport was called
  designs,         \* App useState: the list of DesignAsset
  selectedDesignId, \* App useState
  isEditing,       \* App useState
  isPlanning,      \* App useState
  calls,           \* the service calls made so far, each with its closure
  started,         \* how many service calls have been made
  nextId           \* how many ids crypto.randomUUID has handed to designs

vars ==
  <<stampGeometry, frameGeometry, baseGeometry, isProcessing, imageSrc, settings,
    epoch, req, owner, reported, escaped, finished, seen, inp, out,
    exportTrigger, exportDep, exports, clicks,
    designs, selectedDesignId, isEditing, isPlanning, calls, started, nextId>>

appVars == <<designs, selectedDesignId, isEditing, isPlanning, calls, started, nextId>>

exportVars == <<exportTrigger, exportDep, exports, clicks>>

sceneVars ==
  <<stampGeometry, frameGeometry, baseGeometry, isProcessing, imageSrc, settings,
    epoch, req, owner, reported, escaped, finished, seen>>

Requests == 1..MaxReq

IdleRequest ==
  [pc |-> "idle", isMounted |-> FALSE, imageSrc |-> NoImage,
   settings |-> DefaultSettings, stampGeo |-> NoGeometry,
   frameGeo |-> NoGeometry, baseGeo |-> NoGeometry,
   silhouette |-> "pending", branch |-> "none", outcome |-> "none"]

NothingSeen == [ctx |-> <<>>, shape |-> NoShape]

NoOwner == [stamp |-> 0, frame |-> 0, base |-> 0]

SceneInit ==
  /\ stampGeometry = NoGeometry
  /\ frameGeometry = NoGeometry
  /\ baseGeometry = NoGeometry
  /\ isProcessing = FALSE
  /\ imageSrc = NoImage
  /\ settings = DefaultSettings
  /\ epoch = 0
  /\ req = [r \in Requests |-> IdleRequest]
  /\ owner = NoOwner
  /\ reported = {}
  /\ escaped = {}
  /\ finished = <<>>
  /\ seen = [r \in Requests |-> NothingSeen]

NoInput == [kind |-> "none"]

NoOutput == [op |-> "none"]

\* null (selectedDesignId, imageUrl) and undefined (referenceImage).
NoId == 0

NoUrl == 0

NoCall == [kind |-> "none", state |-> "idle"]

\* Service calls (suggestDesigns, generateStencilImage, editStencilImage)
\* and designs explored.
MaxCalls == 2

MaxDesigns == 2

AppInit ==
  /\ designs = <<>>
  /\ selectedDesignId = NoId
  /\ isEditing = FALSE
  /\ isPlanning = FALSE
  /\ calls = [c \in 1..MaxCalls |-> NoCall]
  /\ started = 0
  /\ nextId = 0

\* No SceneContent is mounted: its export effect has not run.
Unmounted == 0 - 1

ExportInit ==
  /\ exportTrigger = 0
  /\ exportDep = Unmounted
  /\ exports = <<>>
  /\ clicks = 0

Init ==
  /\ SceneInit
  /\ ExportInit
  /\ AppInit
  /\ inp = NoInput
  /\ out = NoOutput

\* A generate that forgets its isMounted test before the setters.
SetGeometryAlways(r, stampGeo, frameGeo, baseGeo) ==
  /\ stampGeometry' = stampGeo
  /\ frameGeometry' = frameGeo
  /\ baseGeometry' = baseGeo
  /\ owner' = [stamp |-> r, frame |-> r, base |-> r]

\* A generate that guards setStampGeometry alone.
SetGeometryStampGuardOnly(r, stampGeo, frameGeo, baseGeo) ==
  /\ stampGeometry' = IF req[r].isMounted THEN stampGeo ELSE stampGeometry
  /\ frameGeometry' = frameGeo
  /\ baseGeometry' = baseGeo
  /\ owner' = [stamp |-> IF req[r].isMounted THEN r ELSE owner.stamp,
               frame |-> r, base |-> r]

\* A generate that leaves out setBaseGeometry.
SetGeometryWithoutBase(r, stampGeo, frameGeo, baseGeo) ==
  IF req[r].isMounted
  THEN /\ stampGeometry' = stampGeo
       /\ frameGeometry' = frameGeo
       /\ baseGeometry' = baseGeometry
       /\ owner' = [stamp |-> r, frame |-> r, base |-> owner.base]
  ELSE UNCHANGED <<stampGeometry, frameGeometry, baseGeometry, owner>>

\* Lines 121-125: the three setters, called together when the run's isMounted
\* flag is still set, and not at all otherwise.
SetGeometryIfMounted(r, stampGeo, frameGeo, baseGeo) ==
  IF req[r].isMounted
  THEN /\ stampGeometry' = stampGeo
       /\ frameGeometry' = frameGeo
       /\ baseGeometry' = baseGeo
       /\ owner' = [stamp |-> r, frame |-> r, base |-> r]
  ELSE UNCHANGED <<stampGeometry, frameGeometry, baseGeometry, owner>>

\* A generate whose catch block rethrows instead of logging.
CatchRethrow(r) ==
  /\ reported' = reported
  /\ escaped' = escaped \cup {r}

\* Lines 126-127: catch (e) { console.error("Gen Error", e) }.
CatchError(r) ==
  /\ reported' = reported \cup {r}
  /\ escaped' = escaped

\* Lines 128-130: finally { if (isMounted) setIsProcessing(false) }.
Finally(r) ==
  isProcessing' = IF req[r].isMounted THEN FALSE ELSE isProcessing

\* A fit that takes the larger of the two factors.
FitStampLargerFactor(stampGeo, s) ==
  IF stampGeo.empty THEN stampGeo
  ELSE LET stampW == stampGeo.x1 - stampGeo.x0
           stampH == stampGeo.y1 - stampGeo.y0
           availableW10 == 9 * s.width
           availableH10 == 10 * s.height - s.width
           useX == availableW10 * stampH >= availableH10 * stampW
           scaled == IF useX
                     THEN ScaleXY(stampGeo, availableW10, 10 * stampW)
                     ELSE ScaleXY(stampGeo, availableH10, 10 * stampH)
       IN  CentreXY(scaled)

\* Lines 100-112: fit the stamp into the footprint less 5% of the width on
\* every side, with one factor for X and Y, then centre it.
FitStamp(stampGeo, s) ==
  IF stampGeo.empty THEN stampGeo
  ELSE LET stampW == stampGeo.x1 - stampGeo.x0
           stampH == stampGeo.y1 - stampGeo.y0
           availableW10 == 9 * s.width
           availableH10 == 10 * s.height - s.width
           \* scaleX = availableW / stampW, scaleY = availableH / stampH
           useX == availableW10 * stampH <= availableH10 * stampW
           scaled == IF useX
                     THEN ScaleXY(stampGeo, availableW10, 10 * stampW)
                     ELSE ScaleXY(stampGeo, availableH10, 10 * stampH)
       IN  CentreXY(scaled)

\* A dependency list that leaves out settings.baseThickness.
DepsWithoutBaseThickness(img, s) ==
  <<img, s.threshold, s.invert, s.detailHeight, s.width, s.height, s.shape,
    s.frameHeight, s.frameThickness>>

\* Line 135: the dependency list of the generate effect.
Deps(img, s) ==
  <<img, s.threshold, s.invert, s.detailHeight, s.width, s.height, s.shape,
    s.frameHeight, s.frameThickness, s.baseThickness>>

\* Lines 59-68 with the cleanup of the previous run (line 134): one run of
\* the effect, up to the first await of generate().
StartRun(img, s) ==
  /\ epoch' = epoch + 1
  /\ imageSrc' = img
  /\ settings' = s
  /\ stampGeometry' = NoGeometry
  /\ frameGeometry' = NoGeometry
  /\ baseGeometry' = NoGeometry
  /\ owner' = NoOwner
  /\ req' = [r \in Requests |->
               IF r = epoch + 1
               THEN [IdleRequest EXCEPT
                       !.pc = IF img = NoImage THEN "done" ELSE "stamp",
                       !.isMounted = TRUE,
                       !.imageSrc = img,
                       !.settings = s,
                       !.outcome = IF img = NoImage THEN "skipped" ELSE "none"]
               ELSE [req[r] EXCEPT !.isMounted = FALSE]]
  /\ isProcessing' = IF img = NoImage THEN isProcessing ELSE TRUE
  /\ finished' = IF img = NoImage THEN Append(finished, epoch + 1) ELSE finished
  /\ UNCHANGED <<reported, escaped, seen, inp, out, exportVars, appVars>>

\* A render of SceneContent with the props (img, s): the effect runs at mount
\* and whenever one of its dependencies has changed, and not otherwise.
RunEffect(img, s) ==
  /\ epoch < MaxReq
  /\ epoch = 0 \/ <<img, s>> # <<imageSrc, settings>>
  /\ IF epoch = 0 \/ Deps(img, s) # Deps(imageSrc, settings)
     THEN StartRun(img, s)
     ELSE /\ imageSrc' = img
          /\ settings' = s
          /\ UNCHANGED <<stampGeometry, frameGeometry, baseGeometry, isProcessing,
                         epoch, req, owner, reported, escaped, finished, seen,
                         inp, out, exportVars, appVars>>

\* App renders Viewer3D only while the selected design has an image (lines
\* 631-637): leaving such a design and coming back unmounts SceneContent (the
\* cleanup of line 134) and mounts it again with the same props.
Remount ==
  /\ epoch > 0
  /\ epoch < MaxReq
  /\ imageSrc # NoImage
  /\ StartRun(imageSrc, settings)

\* The run ends in the catch block.
Fail(r, why, silhouette) ==
  /\ req' = [req EXCEPT ![r].pc = "done", ![r].outcome = why,
                        ![r].silhouette = silhouette]
  /\ finished' = Append(finished, r)
  /\ CatchError(r)
  /\ Finally(r)
  /\ UNCHANGED <<stampGeometry, frameGeometry, baseGeometry, owner>>

\* A fallback that writes shape = 'rectangle' into the object it was given.
SettingsAfterFallbackInPlace(s) == [s EXCEPT !.shape = "rectangle"]

\* Lines 94-95: {...settings, shape: 'rectangle'} is a new object for each of
\* the two calls; the object that generate's settings names stays as it was.
SettingsAfterFallback(s) == s

\* The run reaches line 121 with its three geometries.  The builders only
\* read their settings argument (part_000 lines 138-233, 259-285).
Complete(r, branch, silhouette, stampGeo, frameGeo, baseGeo) ==
  /\ req' = [req EXCEPT ![r].pc = "done", ![r].branch = branch,
                        ![r].settings = IF branch = "fallback"
                                        THEN SettingsAfterFallback(@) ELSE @,
                        ![r].stampGeo = stampGeo,
                        ![r].frameGeo = frameGeo,
                        ![r].baseGeo = baseGeo,
                        ![r].silhouette = silhouette,
                        ![r].outcome = IF req[r].isMounted THEN "applied" ELSE "dropped"]
  /\ SetGeometryIfMounted(r, stampGeo, frameGeo, baseGeo)
  /\ Finally(r)
  /\ finished' = Append(finished, r)
  /\ UNCHANGED <<reported, escaped>>

\* loadImage of createStampGeometry resolves: lines 70-81, and for rectangle
\* and circle lines 98-125.
StampLoaded(r, ctx) ==
  /\ req[r].pc = "stamp"
  /\ LET s == req[r].settings
         stampGeo == createStampGeometry(req[r].imageSrc, s, ctx)
     IN  IF s.shape = "outline"
         THEN /\ req' = [req EXCEPT ![r].pc = "silhouette", ![r].stampGeo = stampGeo]
              /\ UNCHANGED <<stampGeometry, frameGeometry, baseGeometry, owner,
                             isProcessing, reported, escaped, finished>>
         ELSE Complete(r, "primitive", "pending", FitStamp(stampGeo, s),
                       createCutterFrame(s, NoShape), createBasePlate(s, NoShape))
  /\ seen' = [seen EXCEPT ![r].ctx = Append(@, ctx)]
  /\ UNCHANGED <<imageSrc, settings, epoch, inp, out, exportVars, appVars>>

\* loadImage of createStampGeometry rejects (img.onerror).
StampLoadFailed(r) ==
  /\ req[r].pc = "stamp"
  /\ Fail(r, "load-failed", "pending")
  /\ UNCHANGED <<imageSrc, settings, epoch, seen, inp, out, exportVars, appVars>>

\* A fallback that passes the settings on unchanged.
FallbackSettingsUnforced(s) == s

\* The rectangle fallback of lines 92-96.
FallbackSettings(s) == [s EXCEPT !.shape = "rectangle"]

\* Lines 83-91 and 115-119 once the silhouette is there.
OutlineBranch(r, silhouetteShape) ==
  LET s == req[r].settings
      frameGeo == flipGeometryY(createCutterFrame(s, silhouetteShape))
      baseGeo == flipGeometryY(createBasePlate(s, silhouetteShape))
      frameW == frameGeo.x1 - frameGeo.x0
  IN  IF ~flipGeometryYExported
      THEN Fail(r, "threw", "found")
      ELSE IF frameW > 0 /\ s.width # frameW
           THEN Complete(r, "outline", "found",
                         ScaleXY(req[r].stampGeo, s.width, frameW),
                         ScaleXY(frameGeo, s.width, frameW),
                         ScaleXY(baseGeo, s.width, frameW))
           ELSE Complete(r, "outline", "found", req[r].stampGeo, frameGeo, baseGeo)

\* loadImage of generateSilhouetteShape resolves: lines 82-96 and 115-125.
SilhouetteLoaded(r, ctx) ==
  /\ req[r].pc = "silhouette"
  /\ LET s == req[r].settings
         silhouetteShape == generateSilhouetteShape(req[r].imageSrc, req[r].settings, ctx)
     IN  IF silhouetteShape # NoShape
         THEN OutlineBranch(r, silhouetteShape)
         ELSE Complete(r, "fallback", "none", req[r].stampGeo,
                       createCutterFrame(FallbackSettings(s), NoShape),
                       createBasePlate(FallbackSettings(s), NoShape))
  /\ seen' = [seen EXCEPT ![r].ctx = Append(@, ctx),
                          ![r].shape = generateSilhouetteShape(req[r].imageSrc,
                                                               req[r].settings, ctx)]
  /\ UNCHANGED <<imageSrc, settings, epoch, inp, out, exportVars, appVars>>

\* loadImage of generateSilhouetteShape rejects.
SilhouetteLoadFailed(r) ==
  /\ req[r].pc = "silhouette"
  /\ Fail(r, "load-failed", "pending")
  /\ UNCHANGED <<imageSrc, settings, epoch, seen, inp, out, exportVars, appVars>>

Next ==
  \/ \E img \in ImagePool \cup {NoImage}, s \in SettingsPool : RunEffect(img, s)
  \/ \E r \in Requests, ctx \in BOOLEAN : StampLoaded(r, ctx)
  \/ \E r \in Requests : StampLoadFailed(r)
  \/ \E r \in Requests, ctx \in BOOLEAN : SilhouetteLoaded(r, ctx)
  \/ \E r \in Requests : SilhouetteLoadFailed(r)

Spec == Init /\ [][Next]_vars

\* --------------------------------------- one prop of SceneContent at a time
\* A second value for every field of CutterSettings.
AltSettings ==
  [width |-> 600, height |-> 600, baseThickness |-> 30, detailHeight |-> 20,
   invert |-> TRUE, threshold |-> 200, smoothing |-> 1, shape |-> "rectangle",
   frameThickness |-> 30, frameHeight |-> 100]

SettingNames == DOMAIN DefaultSettings

\* setSettings({...settings, [f]: value}) as the panel's controls call it.
Toggle(s, f) ==
  [s EXCEPT ![f] = IF s[f] = DefaultSettings[f] THEN AltSettings[f]
                   ELSE DefaultSettings[f]]

\* The settings at mount; toggling the shape leads to 'outline' and back.
MountSettings ==
  {[DefaultSettings EXCEPT !.shape = "rectangle"],
   [DefaultSettings EXCEPT !.shape = "circle"]}

\* SceneContent mounts with the image Dot, and then every render changes the
\* image (to White or back) or exactly one setting.
NextDeps ==
  \/ \E s \in MountSettings : epoch = 0 /\ RunEffect(Dot, s)
  \/ \E img \in {Dot, White} : epoch > 0 /\ RunEffect(img, settings)
  \/ \E f \in SettingNames : epoch > 0 /\ RunEffect(imageSrc, Toggle(settings, f))
  \/ \E r \in Requests, ctx \in BOOLEAN : StampLoaded(r, ctx)
  \/ \E r \in Requests : StampLoadFailed(r)
  \/ \E r \in Requests, ctx \in BOOLEAN : SilhouetteLoaded(r, ctx)
  \/ \E r \in Requests : SilhouetteLoadFailed(r)

SpecDeps == Init /\ [][NextDeps]_vars

\* ------------------------------------ two generations on the same inputs
\* SceneContent mounts, and every later run is a remount with the same image
\* and settings; the runs' awaits resolve in any order.
NextPair ==
  \/ \E img \in ImagePool \cup {Grey, Blobs}, s \in SettingsPool :
        epoch = 0 /\ RunEffect(img, s)
  \/ Remount
  \/ \E r \in Requests, ctx \in BOOLEAN : StampLoaded(r, ctx)
  \/ \E r \in Requests : StampLoadFailed(r)
  \/ \E r \in Requests, ctx \in BOOLEAN : SilhouetteLoaded(r, ctx)
  \/ \E r \in Requests : SilhouetteLoadFailed(r)

SpecPair == Init /\ [][NextPair]_vars

\* ------------------------------------- the relief controls on one image
ThresholdPool == {100, 220}

ReliefSettings ==
  {[DefaultSettings EXCEPT !.threshold = th, !.invert = inv] :
     th \in ThresholdPool, inv \in BOOLEAN}

\* A design's image is shown with shape 'outline', and then every render
\* comes from the threshold slider or the invert button (part_001 lines
\* 547-565).
NextRelief ==
  \/ \E img \in {Dot, Grey}, s \in ReliefSettings :
        epoch = 0 /\ RunEffect(img, s)
  \/ \E s \in ReliefSettings : epoch > 0 /\ RunEffect(imageSrc, s)
  \/ \E r \in Requests, ctx \in BOOLEAN : StampLoaded(r, ctx)
  \/ \E r \in Requests : StampLoadFailed(r)
  \/ \E r \in Requests, ctx \in BOOLEAN : SilhouetteLoaded(r, ctx)
  \/ \E r \in Requests : SilhouetteLoadFailed(r)

SpecRelief == Init /\ [][NextRelief]_vars

\* ------------------------------------------------------------ STL export
\* Viewer3D is rendered, and the Export STL button enabled, under the same
\* condition (part_001 lines 620 and 631): the selected design has an image.
\* SceneContent is mounted from the first run of its generate effect on.
Mounted == epoch > 0

\* React runs the effects of a committed render before it handles the next
\* event: while the export effect has not yet run with the current
\* exportTrigger, nothing else happens.
EffectsFlushed == Mounted => exportDep = exportTrigger

\* handleExport (part_001 lines 200-202), from the Export STL button.
handleExport ==
  /\ Mounted
  /\ EffectsFlushed
  /\ clicks < MaxClicks
  /\ exportTrigger' = exportTrigger + 1
  /\ clicks' = clicks + 1
  /\ UNCHANGED <<sceneVars, exportDep, exports, appVars, inp, out>>

\* An effect without the exportTrigger === 0 test.
ShouldExportAlways(trigger, group) == group

\* Line 138: if (exportTrigger === 0 || !groupRef.current) return.
ShouldExport(trigger, group) == ~(trigger = 0 \/ ~group)

\* What exporter.parse finds in the group: a mesh for each slot that is not
\* null (lines 154-156), and which run the slots and the flag belong to.
GroupContent ==
  [trigger |-> exportTrigger,
   stamp |-> stampGeometry # NoGeometry,
   frame |-> frameGeometry # NoGeometry,
   base |-> baseGeometry # NoGeometry,
   owner |-> owner, epoch |-> epoch,
   pc |-> req[epoch].pc, outcome |-> req[epoch].outcome]

\* The export effect (lines 137-147): it runs after the mount and after
\* every render in which exportTrigger has changed.  The group is rendered
\* whenever SceneContent is (lines 153-157), so groupRef.current is set.
\* onExportComplete is App's () => setExportTrigger(0) (part_001 line 636).
ExportEffect ==
  /\ Mounted
  /\ exportDep # exportTrigger
  /\ exportDep' = exportTrigger
  /\ IF ShouldExport(exportTrigger, TRUE)
     THEN /\ exports' = Append(exports, GroupContent)
          /\ exportTrigger' = 0
     ELSE UNCHANGED <<exports, exportTrigger>>
  /\ UNCHANGED <<sceneVars, clicks, appVars, inp, out>>

ExportSettings ==
  {DefaultSettings, [DefaultSettings EXCEPT !.shape = "circle"]}

\* A design with an image is selected, the image or a setting is changed,
\* the images load or fail to, and Export STL is clicked at any moment.
NextExport ==
  \/ \E img \in {White, Dot}, s \in ExportSettings :
        EffectsFlushed /\ RunEffect(img, s)
  \/ \E r \in Requests, ctx \in BOOLEAN : EffectsFlushed /\ StampLoaded(r, ctx)
  \/ \E r \in Requests : EffectsFlushed /\ StampLoadFailed(r)
  \/ \E r \in Requests, ctx \in BOOLEAN : EffectsFlushed /\ SilhouetteLoaded(r, ctx)
  \/ \E r \in Requests : EffectsFlushed /\ SilhouetteLoadFailed(r)
  \/ handleExport
  \/ ExportEffect

SpecExport == Init /\ [][NextExport]_vars

\* ------------------------------------------------- App: the design list
\* What the handlers of the design list leave alone: SceneContent, the
\* export trigger, and the settings.
notApp == <<sceneVars, exportVars, inp, out>>

\* { ...d, ...updates }
Merge(d, updates) ==
  [f \in DOMAIN d |-> IF f \in DOMAIN updates THEN updates[f] ELSE d[f]]

\* Lines 79-81: setDesigns(prev => prev.map(d => d.id === id ? {...} : d)).
updateDesign(prev, ident, updates) ==
  [k \in 1..Len(prev) |->
     IF prev[k].id = ident THEN Merge(prev[k], updates) ELSE prev[k]]

Ids(ds) == {ds[k].id : k \in 1..Len(ds)}

\* designs.find(d => d.id === id), for an id that is in the list.
Find(ds, ident) == ds[CHOOSE k \in 1..Len(ds) : ds[k].id = ident]

\* prev.filter(d => d.id !== id)
RECURSIVE Without(_, _)
Without(ds, ident) ==
  IF Len(ds) = 0 THEN <<>>
  ELSE IF ds[1].id = ident THEN Without(Tail(ds), ident)
       ELSE <<ds[1]>> \o Without(Tail(ds), ident)

\* A design as handlePlanDesigns (lines 88-96, 103-111) and
\* handleImageToDesign (lines 125-134) make it.
IdleAsset(n, referenceImage) ==
  [id |-> n, imageUrl |-> NoUrl, referenceImage |-> referenceImage,
   status |-> "idle", errorMessage |-> "undefined", chatHistory |-> <<>>]

\* An upload that stores the file as the reference and is marked done.
UploadedAssetAsReference(n, result) ==
  [id |-> n, imageUrl |-> NoUrl, referenceImage |-> result,
   status |-> "done", errorMessage |-> "undefined", chatHistory |-> <<>>]

\* Lines 168-176: the design that handleFileUpload makes of a read file.
UploadedAsset(n, result) ==
  [id |-> n, imageUrl |-> result, referenceImage |-> NoUrl,
   status |-> "done", errorMessage |-> "undefined", chatHistory |-> <<>>]

\* The data URL that FileReader.readAsDataURL gives for the n-th file read.
FileResult(n) == 30 + n

\* The image services (./services/geminiService): a call resolves with the
\* URL of an image, one per call, or rejects.
generateStencilImage(c) == 10 + c

editStencilImage(c) == 20 + c

\* Lines 83-87: handlePlanDesigns up to its await.  The button is disabled
\* while isPlanning; the Enter key of the input is not (line 324).
PlanStart ==
  /\ started < MaxCalls
  /\ started' = started + 1
  /\ calls' = [calls EXCEPT ![started + 1] = [kind |-> "plan", state |-> "pending"]]
  /\ isPlanning' = TRUE
  /\ UNCHANGED <<designs, selectedDesignId, isEditing, nextId>>
  /\ UNCHANGED notApp

\* Lines 88-100 and 114-116: suggestDesigns resolves with k suggestions.
PlanResolved(c, k) ==
  /\ calls[c].kind = "plan"
  /\ calls[c].state = "pending"
  /\ nextId + k <= MaxDesigns
  /\ calls' = [calls EXCEPT ![c].state = "resolved"]
  /\ designs' = [i \in 1..k |-> IdleAsset(nextId + i, NoUrl)]
  /\ nextId' = nextId + k
  /\ selectedDesignId' = IF k > 0 THEN nextId + 1 ELSE selectedDesignId
  /\ isPlanning' = FALSE
  /\ UNCHANGED <<isEditing, started>>
  /\ UNCHANGED notApp

\* Lines 101-116: suggestDesigns rejects.
PlanRejected(c) ==
  /\ calls[c].kind = "plan"
  /\ calls[c].state = "pending"
  /\ nextId < MaxDesigns
  /\ calls' = [calls EXCEPT ![c].state = "rejected"]
  /\ designs' = <<IdleAsset(nextId + 1, NoUrl)>>
  /\ nextId' = nextId + 1
  /\ selectedDesignId' = nextId + 1
  /\ isPlanning' = FALSE
  /\ UNCHANGED <<isEditing, started>>
  /\ UNCHANGED notApp

\* Lines 119-140: reader.onload of handleImageToDesign.
handleImageToDesign ==
  /\ nextId < MaxDesigns
  /\ designs' = Append(designs, IdleAsset(nextId + 1, FileResult(nextId + 1)))
  /\ selectedDesignId' = nextId + 1
  /\ nextId' = nextId + 1
  /\ UNCHANGED <<isEditing, isPlanning, calls, started>>
  /\ UNCHANGED notApp

\* Lines 163-182: reader.onload of handleFileUpload.
handleFileUpload ==
  /\ nextId < MaxDesigns
  /\ designs' = Append(designs, UploadedAsset(nextId + 1, FileResult(nextId + 1)))
  /\ selectedDesignId' = nextId + 1
  /\ nextId' = nextId + 1
  /\ UNCHANGED <<isEditing, isPlanning, calls, started>>
  /\ UNCHANGED notApp

\* The controls of a design that is idle or in error (lines 411-443).
CanGenerate(ident) ==
  /\ ident \in Ids(designs)
  /\ Find(designs, ident).status \in {"idle", "error"}

\* Lines 184-193: reader.onload of handleReferenceUpload.
handleReferenceUpload(ident) ==
  /\ CanGenerate(ident)
  /\ Find(designs, ident).referenceImage = NoUrl
  /\ designs' = updateDesign(designs, ident, [referenceImage |-> FileResult(0)])
  /\ UNCHANGED <<selectedDesignId, isEditing, isPlanning, calls, started, nextId>>
  /\ UNCHANGED notApp

\* Lines 195-198.
clearReference(ident) ==
  /\ CanGenerate(ident)
  /\ Find(designs, ident).referenceImage # NoUrl
  /\ designs' = updateDesign(designs, ident, [referenceImage |-> NoUrl])
  /\ UNCHANGED <<selectedDesignId, isEditing, isPlanning, calls, started, nextId>>
  /\ UNCHANGED notApp

\* Line 367: a click on a design of the list.
SelectDesign(ident) ==
  /\ ident \in Ids(designs)
  /\ selectedDesignId # ident
  /\ selectedDesignId' = ident
  /\ UNCHANGED <<designs, isEditing, isPlanning, calls, started, nextId>>
  /\ UNCHANGED notApp

\* Lines 204-210.
removeDesign(ident) ==
  /\ ident \in Ids(designs)
  /\ designs' = Without(designs, ident)
  /\ selectedDesignId' = IF selectedDesignId = ident THEN NoId ELSE selectedDesignId
  /\ UNCHANGED <<isEditing, isPlanning, calls, started, nextId>>
  /\ UNCHANGED notApp

\* Lines 142-147: handleGenerateAsset up to its await.
GenerateStart(ident) ==
  /\ started < MaxCalls
  /\ CanGenerate(ident)
  /\ started' = started + 1
  /\ calls' = [calls EXCEPT ![started + 1] =
                 [kind |-> "generate", state |-> "pending", id |-> ident,
                  design |-> Find(designs, ident)]]
  /\ designs' = updateDesign(designs, ident,
                              [status |-> "generating", errorMessage |-> "undefined"])
  /\ selectedDesignId' = ident
  /\ UNCHANGED <<isEditing, isPlanning, nextId>>
  /\ UNCHANGED notApp

\* A handler that stores the image and leaves the status alone.
ResolvedUpdatesImageOnly(url) == [imageUrl |-> url]

\* Line 157.
ResolvedUpdates(url) == [imageUrl |-> url, status |-> "done"]

\* Lines 150-157: generateStencilImage resolves.
GenerateResolved(c) ==
  /\ calls[c].kind = "generate"
  /\ calls[c].state = "pending"
  /\ calls' = [calls EXCEPT ![c].state = "resolved"]
  /\ designs' = updateDesign(designs, calls[c].id,
                              ResolvedUpdates(generateStencilImage(c)))
  /\ UNCHANGED <<selectedDesignId, isEditing, isPlanning, started, nextId>>
  /\ UNCHANGED notApp

\* Lines 158-160: generateStencilImage rejects.
GenerateRejected(c) ==
  /\ calls[c].kind = "generate"
  /\ calls[c].state = "pending"
  /\ calls' = [calls EXCEPT ![c].state = "rejected"]
  /\ designs' = updateDesign(designs, calls[c].id,
                              [status |-> "error", errorMessage |-> "Failed to generate"])
  /\ UNCHANGED <<selectedDesignId, isEditing, isPlanning, started, nextId>>
  /\ UNCHANGED notApp

\* The messages of lines 228-233, 245-250 and 257-262; a user message is
\* known by the call it was sent with.
UserMsg(c) == [role |-> "user", text |-> c]

AiMsg == [role |-> "model", text |-> "updated"]

ErrorMsg == [role |-> "model", text |-> "sorry"]

\* Lines 222-240: handleSendMessage up to its await.  The input and the
\* send button are disabled while isEditing (lines 721-728).  The call's
\* record keeps, as history, the selection at the time the call settles.
SendStart ==
  /\ started < MaxCalls
  /\ ~isEditing
  /\ selectedDesignId # NoId
  /\ selectedDesignId \in Ids(designs)
  /\ Find(designs, selectedDesignId).imageUrl # NoUrl
  /\ started' = started + 1
  /\ calls' = [calls EXCEPT ![started + 1] =
                 [kind |-> "edit", state |-> "pending", id |-> selectedDesignId,
                  design |-> Find(designs, selectedDesignId),
                  selected |-> selectedDesignId]]
  /\ designs' = updateDesign(designs, selectedDesignId,
                   [chatHistory |-> Append(Find(designs, selectedDesignId).chatHistory,
                                           UserMsg(started + 1))])
  /\ isEditing' = TRUE
  /\ UNCHANGED <<selectedDesignId, isPlanning, nextId>>
  /\ UNCHANGED notApp

\* A handler that reads the selection when the call has settled.
EditTargetLatest(c) == selectedDesignId

\* Lines 252 and 263: selectedDesignId is the constant of the render in
\* which the message was sent.
EditTarget(c) == calls[c].id

\* Lines 243-255 and 266-268: editStencilImage resolves.
EditResolved(c) ==
  /\ calls[c].kind = "edit"
  /\ calls[c].state = "pending"
  /\ calls' = [calls EXCEPT ![c].state = "resolved", ![c].selected = selectedDesignId]
  /\ designs' = updateDesign(designs, EditTarget(c),
                   [imageUrl |-> editStencilImage(c),
                    chatHistory |-> calls[c].design.chatHistory
                                      \o <<UserMsg(c), AiMsg>>])
  /\ isEditing' = FALSE
  /\ UNCHANGED <<selectedDesignId, isPlanning, started, nextId>>
  /\ UNCHANGED notApp

\* Lines 256-268: editStencilImage rejects.
EditRejected(c) ==
  /\ calls[c].kind = "edit"
  /\ calls[c].state = "pending"
  /\ calls' = [calls EXCEPT ![c].state = "rejected", ![c].selected = selectedDesignId]
  /\ designs' = updateDesign(designs, EditTarget(c),
                   [chatHistory |-> calls[c].design.chatHistory
                                      \o <<UserMsg(c), ErrorMsg>>])
  /\ isEditing' = FALSE
  /\ UNCHANGED <<selectedDesignId, isPlanning, started, nextId>>
  /\ UNCHANGED notApp

Settle(c) ==
  \/ \E k \in 0..MaxDesigns : PlanResolved(c, k)
  \/ PlanRejected(c)
  \/ GenerateResolved(c)
  \/ GenerateRejected(c)
  \/ EditResolved(c)
  \/ EditRejected(c)

NextApp ==
  \/ PlanStart
  \/ \E c \in 1..MaxCalls, k \in 0..MaxDesigns : PlanResolved(c, k)
  \/ \E c \in 1..MaxCalls : PlanRejected(c)
  \/ handleImageToDesign
  \/ handleFileUpload
  \/ \E ident \in 1..MaxDesigns : handleReferenceUpload(ident)
  \/ \E ident \in 1..MaxDesigns : clearReference(ident)
  \/ \E ident \in 1..MaxDesigns : SelectDesign(ident)
  \/ \E ident \in 1..MaxDesigns : removeDesign(ident)
  \/ \E ident \in 1..MaxDesigns : GenerateStart(ident)
  \/ \E c \in 1..MaxCalls : GenerateResolved(c)
  \/ \E c \in 1..MaxCalls : GenerateRejected(c)
  \/ SendStart
  \/ \E c \in 1..MaxCalls : EditResolved(c)
  \/ \E c \in 1..MaxCalls : EditRejected(c)

SpecApp == Init /\ [][NextApp]_vars

\* Every service call settles.
SpecAppFair ==
  /\ SpecApp
  /\ \A c \in 1..MaxCalls :
       WF_vars(Settle(c))

\* ------------------------------------------- App: the settings controls
\* Lines 462 and 472: the Bubble and Box buttons.
SelectShape(s, shape) == [s EXCEPT !.shape = shape]

\* A Circle button that sets the shape alone.
SelectCircleKeepingHeight(s) == [s EXCEPT !.shape = "circle"]

\* Line 482: the Circle button.
SelectCircle(s) == [s EXCEPT !.shape = "circle", !.height = s.width]

\* Lines 212-218, as a function of the settings of the render (whose shape
\* the handler tests) and the arguments.
handleDimensionChange(s, dimension, value) ==
  IF s.shape = "circle" \/ s.shape = "outline" \/ dimension = "both"
  THEN [s EXCEPT !.width = value, !.height = value]
  ELSE [s EXCEPT ![dimension] = value]

\* The sliders' ends and the default, in tenths of a millimetre.
DimensionPool == {10 * WidthMinMm, DefaultSettings.width, 10 * WidthMaxMm}

\* What a step of the settings panel leaves alone.
notSettings ==
  <<stampGeometry, frameGeometry, baseGeometry, isProcessing, imageSrc, epoch, req,
    owner, reported, escaped, finished, seen, exportVars, appVars, inp>>

\* One of the three shape buttons is clicked; out keeps the settings of the
\* render in which it was.
ShapeButton(shape) ==
  /\ settings' = IF shape = "circle" THEN SelectCircle(settings)
                 ELSE SelectShape(settings, shape)
  /\ out' = [op |-> "shape", before |-> settings]
  /\ UNCHANGED notSettings

\* A size slider is moved: Width or Height for the rectangle (lines 506,
\* 520), the one Diameter / Size slider otherwise (line 536).
DimensionSlider(dimension, value) ==
  /\ IF settings.shape = "rectangle" THEN dimension \in {"width", "height"}
     ELSE dimension = "both"
  /\ settings' = handleDimensionChange(settings, dimension, value)
  /\ out' = [op |-> "dimension", before |-> settings]
  /\ UNCHANGED notSettings

\* Another control of the panel is used (lines 552-611).
OtherControl(f) ==
  /\ settings' = Toggle(settings, f)
  /\ out' = [op |-> "other", before |-> settings]
  /\ UNCHANGED notSettings

\* No design with an image is selected (SceneContent is not mounted) while
\* the panel is used.
NextControls ==
  \/ \E shape \in Shapes : ShapeButton(shape)
  \/ \E dimension \in {"width", "height", "both"}, value \in DimensionPool :
        DimensionSlider(dimension, value)
  \/ \E f \in {"threshold", "invert", "frameHeight", "frameThickness", "detailHeight"} :
        OtherControl(f)

SpecControls == Init /\ [][NextControls]_vars

\* ------------------------------------------ the largest-area selection alone
\* Disjoint contours: two of equal area and opposite winding, a larger one,
\* and two that enclose nothing.
SquareA == <<<<0, 0>>, <<4, 0>>, <<4, 4>>, <<0, 4>>>>
StripB == <<<<10, 0>>, <<10, 2>>, <<18, 2>>, <<18, 0>>>>
BigC == <<<<20, 0>>, <<28, 0>>, <<28, 8>>, <<20, 8>>>>
FlatD == <<<<30, 0>>, <<34, 0>>, <<38, 0>>>>
FlatE == <<<<40, 2>>, <<40, 6>>>>

ShapePool == {SquareA, StripB, BigC, FlatD, FlatE}

ContourSets == UNION {[1..n -> ShapePool] : n \in 0..MaxShapes}

InitSelect ==
  /\ SceneInit
  /\ ExportInit
  /\ AppInit
  /\ inp \in {[kind |-> "contours", shapes |-> cs] : cs \in ContourSets}
  /\ out = NoOutput

\* Lines 120-134 on a traced contour set.
SelectLargest ==
  /\ out = NoOutput
  /\ inp.kind = "contours"
  /\ out' = [op |-> "LargestShape", value |-> LargestShape(inp.shapes)]
  /\ UNCHANGED <<sceneVars, exportVars, appVars, inp>>

NextSelect == SelectLargest

SpecSelect == InitSelect /\ [][NextSelect]_vars

\* ------------------------------------------------- the outline wall alone
FrameThicknessRange ==
  {t \in FrameThicknessMin..FrameThicknessMax :
     (t - FrameThicknessMin) % FrameThicknessStep = 0}

\* Thicknesses far beyond the slider: 40 mm, 200 mm, 1 m.
OversizedThickness == {400, 2000, 10000}

WidthRange == {10 * w : w \in WidthMinMm..WidthMaxMm}

InitHole ==
  /\ SceneInit
  /\ ExportInit
  /\ AppInit
  /\ inp \in {[kind |-> "outline-frame",
               settings |-> [DefaultSettings EXCEPT !.frameThickness = t, !.width = w,
                                                    !.height = w],
               shape |-> SquareA] :
                t \in FrameThicknessRange \cup OversizedThickness, w \in WidthRange}
  /\ out = NoOutput

\* createCutterFrame(settings, silhouetteShape), as line 84 calls it.
BuildOutlineFrame ==
  /\ out = NoOutput
  /\ inp.kind = "outline-frame"
  /\ out' = [op |-> "createCutterFrame",
             value |-> createCutterFrame(inp.settings, inp.shape)]
  /\ UNCHANGED <<sceneVars, exportVars, appVars, inp>>

NextHole == BuildOutlineFrame

SpecHole == InitHole /\ [][NextHole]_vars

\* ------------------------------------------------- the stamp fit alone
\* What createStampGeometry returns for a traced relief w x h canvas pixels
\* in size whose left edge is at x: Y is already negated.
StampBox(x, w, h) ==
  [empty |-> FALSE, kind |-> "stamp", x0 |-> x, x1 |-> x + w, y0 |-> 0 - h, y1 |-> 0,
   den |-> 1, z0 |-> 0, z1 |-> DefaultSettings.detailHeight]

\* A wide relief, a square one off the left edge, and a tall one.
StampPool ==
  {StampBox(0, PROCESS_RES, 400), StampBox(400, 400, 400),
   StampBox(0, 300, PROCESS_RES), EmptyGeometry}

InitFit ==
  /\ SceneInit
  /\ ExportInit
  /\ AppInit
  /\ inp \in {[kind |-> "fit", stampGeo |-> g,
               settings |-> [DefaultSettings EXCEPT !.shape = sh, !.width = w,
                                                    !.height = h]] :
                g \in StampPool, sh \in {"rectangle", "circle"},
                w \in WidthRange, h \in WidthRange}
  /\ out = NoOutput

\* Lines 100-112 on the stamp that line 70 got.
FitToFootprint ==
  /\ out = NoOutput
  /\ inp.kind = "fit"
  /\ out' = [op |-> "FitStamp", value |-> FitStamp(inp.stampGeo, inp.settings)]
  /\ UNCHANGED <<sceneVars, exportVars, appVars, inp>>

NextFit == FitToFootprint

SpecFit == InitFit /\ [][NextFit]_vars

\* ------------------------------------------- the silhouette masks alone
\* Pixel averages on both sides of the two cut-offs.
GreyLevels == {0, ContentCutoff - 1, ContentCutoff, cutThreshold, 255}

InitMask ==
  /\ SceneInit
  /\ ExportInit
  /\ AppInit
  /\ inp \in {[kind |-> "image", img |-> img] :
                img \in UNION {[1..n -> GreyLevels] : n \in 1..MaxPixels}}
  /\ out = NoOutput

\* Lines 51-68: canvas holds the base mask.
BinarizePass ==
  /\ out = NoOutput
  /\ inp.kind = "image"
  /\ out' = [op |-> "pass1", canvas |-> BinarizeBase(inp.img)]
  /\ UNCHANGED <<sceneVars, exportVars, appVars, inp>>

\* Lines 70-89: tempCanvas after the three shadowed draws.
BlurPass ==
  /\ out.op = "pass1"
  /\ out' = [op |-> "pass2", canvas |-> out.canvas,
             tempCanvas |-> DilatePass(out.canvas)]
  /\ UNCHANGED <<sceneVars, exportVars, appVars, inp>>

\* Lines 91-106: bubbleData after the second threshold.
ThresholdPass ==
  /\ out.op = "pass2"
  /\ out' = [op |-> "pass3", canvas |-> out.canvas,
             bubbleData |-> CutterThresholdPass(out.tempCanvas)]
  /\ UNCHANGED <<sceneVars, exportVars, appVars, inp>>

NextMask ==
  \/ BinarizePass
  \/ BlurPass
  \/ ThresholdPass

SpecMask == InitMask /\ [][NextMask]_vars

\* --------------------------------------- the three builders on any settings
DetailHeightPool == {0 - 10, 0, 35}

BaseThicknessPool == {0 - 20, 0, 20, 30}

FrameHeightPool == {0 - 80, 0 - 20, 0, 50, 80}

HeightPool == {600, 900}

InitBuild ==
  /\ SceneInit
  /\ ExportInit
  /\ AppInit
  /\ inp \in {[kind |-> "build",
               settings |-> [DefaultSettings EXCEPT !.detailHeight = dh,
                               !.baseThickness = bt, !.frameHeight = fh, !.shape = sh,
                               !.height = h],
               img |-> img, shape |-> os] :
                dh \in DetailHeightPool, bt \in BaseThicknessPool,
                fh \in FrameHeightPool, sh \in Shapes, h \in HeightPool,
                img \in {White, Dot}, os \in {NoShape, SquareA}}
  /\ out = NoOutput

BuildStamp(ctx) ==
  /\ out = NoOutput
  /\ inp.kind = "build"
  /\ out' = [op |-> "createStampGeometry",
             value |-> createStampGeometry(inp.img, inp.settings, ctx)]
  /\ UNCHANGED <<sceneVars, exportVars, appVars, inp>>

BuildBase ==
  /\ out = NoOutput
  /\ inp.kind = "build"
  /\ out' = [op |-> "createBasePlate",
             value |-> createBasePlate(inp.settings, inp.shape)]
  /\ UNCHANGED <<sceneVars, exportVars, appVars, inp>>

BuildFrame ==
  /\ out = NoOutput
  /\ inp.kind = "build"
  /\ out' = [op |-> "createCutterFrame",
             value |-> createCutterFrame(inp.settings, inp.shape)]
  /\ UNCHANGED <<sceneVars, exportVars, appVars, inp>>

NextBuild ==
  \/ \E ctx \in BOOLEAN : BuildStamp(ctx)
  \/ BuildBase
  \/ BuildFrame

SpecBuild == InitBuild /\ [][NextBuild]_vars

\* =================================================================== claims
Slots == <<stampGeometry, frameGeometry, baseGeometry>>

\* C1: last request wins.  A step that ends a superseded run (one that is not
\* the latest effect run) leaves the stamp, wall and base state unchanged, and
\* every step that puts a geometry on display is the step in which the latest
\* run ends.
C1_LastRequestWins ==
  [][ /\ \A r \in Requests :
           (req[r].pc # "done" /\ req'[r].pc = "done" /\ r # epoch')
             => Slots' = Slots
      /\ (Slots' # Slots /\ Slots' # <<NoGeometry, NoGeometry, NoGeometry>>)
           => (epoch' = epoch /\ epoch \in Requests
               /\ req[epoch].pc # "done" /\ req'[epoch].pc = "done")
    ]_vars

\* A superseded run ended after the run that superseded it, having computed
\* its geometry, and the display still holds the later run's result.
C1_Witness ==
  /\ epoch = 2
  /\ finished = <<2, 1>>
  /\ req[1].outcome = "dropped"
  /\ req[2].outcome = "applied"
  /\ owner = [stamp |-> 2, frame |-> 2, base |-> 2]
  /\ frameGeometry # NoGeometry

\* C2: the displayed stamp, wall and base always come from one and the same
\* run, and that run is the latest one, whose captured image and settings are
\* the current props.
C2_OneRequest ==
  \A a, b \in {"stamp", "frame", "base"} :
    (owner[a] # 0 /\ owner[b] # 0)
      => /\ owner[a] = owner[b]
         /\ owner[a] = epoch
         /\ req[owner[a]].imageSrc = imageSrc
         /\ req[owner[a]].settings = settings

\* Two runs with different inputs both reached the setters; the display holds
\* the parts of the second only.
C2_Witness ==
  /\ epoch = 2
  /\ req[1].outcome = "dropped"
  /\ req[1].branch = "primitive"
  /\ req[2].branch = "fallback"
  /\ req[2].outcome = "applied"
  /\ owner.stamp = 2 /\ owner.frame = 2 /\ owner.base = 2
  /\ baseGeometry.kind = "box"

\* C3: a run whose loadImage rejected is reported on the console, its error
\* does not leave generate(), and it has set none of the three geometries;
\* while it is the latest run all three stay null.
C3_DecodeFailure ==
  \A r \in Requests :
    req[r].outcome = "load-failed"
      => /\ r \in reported
         /\ r \notin escaped
         /\ owner.stamp # r /\ owner.frame # r /\ owner.base # r
         /\ r = epoch => Slots = <<NoGeometry, NoGeometry, NoGeometry>>

\* The second loadImage (silhouette pass) rejected after the stamp had been
\* built: nothing of the run is on display.
C3_Witness ==
  \E r \in Requests :
    /\ r = epoch
    /\ req[r].outcome = "load-failed"
    /\ req[r].stampGeo # NoGeometry
    /\ ~req[r].stampGeo.empty
    /\ stampGeometry = NoGeometry
    /\ r \in reported

\* C4: when shape is 'outline' and the silhouette pass finds no contour, the
\* selector returns no shape and the run does not fail: wall and base are the
\* rectangle primitives of the run's own settings with shape forced to
\* 'rectangle', and together with the stamp they are what the run applies.
C4_FallbackToRectangle ==
  \A r \in Requests :
    (req[r].pc = "done" /\ req[r].settings.shape = "outline"
       /\ req[r].silhouette = "none")
      => /\ req[r].branch = "fallback"
         /\ req[r].outcome \in {"applied", "dropped"}
         /\ r \notin reported
         /\ (req[r].outcome = "applied" /\ r = epoch)
              => LET s == req[r].settings
                     rect == [s EXCEPT !.shape = "rectangle"]
                 IN  /\ frameGeometry = createCutterFrame(rect, NoShape)
                     /\ frameGeometry.kind = "wall-rectangle"
                     /\ baseGeometry = createBasePlate(rect, NoShape)
                     /\ baseGeometry.kind = "box"
                     /\ stampGeometry = req[r].stampGeo

\* A fallback with a relief: the inverted defaults on the white image (the
\* stamp is the whole canvas, the silhouette pass finds nothing).
C4_Witness ==
  \E r \in Requests :
    /\ r = epoch
    /\ req[r].settings.shape = "outline"
    /\ req[r].silhouette = "none"
    /\ req[r].outcome = "applied"
    /\ frameGeometry.kind = "wall-rectangle"
    /\ baseGeometry.kind = "box"
    /\ ~stampGeometry.empty

\* C5: the largest-area selection returns the contour of maximal unsigned
\* area, and among several contours of that area the first in encounter
\* order.
C5_LargestFirst ==
  (out.op = "LargestShape" /\ Len(inp.shapes) > 0)
    => LET Area(i) == Abs(ShapeUtilsArea(inp.shapes[i]))
           idx == 1..Len(inp.shapes)
           first == CHOOSE i \in idx :
                      /\ \A j \in idx : Area(j) <= Area(i)
                      /\ \A j \in idx : Area(j) = Area(i) => i <= j
       IN  out.value = inp.shapes[first]

\* A set that starts with a contour of no area and then holds two contours of
\* the same area and opposite winding: the first of the two is returned.
C5_Witness ==
  /\ out.op = "LargestShape"
  /\ inp.shapes = <<FlatD, SquareA, StripB>>
  /\ out.value = SquareA

\* C6 (as claimed): whenever the selection returns a contour, that contour's
\* unsigned area is greater than 0.
C6_PositiveArea ==
  (out.op = "LargestShape" /\ out.value # NoShape)
    => Abs(ShapeUtilsArea(out.value)) > 0

\* C7: for every wall thickness and width of the sliders the outline wall's
\* hole scale s satisfies 1/2 <= s < 1 and the hole built from it encloses
\* strictly less area than the outer contour; for any thickness, however
\* large, s >= 1/2.
C7_HoleScale ==
  (out.op = "createCutterFrame" /\ inp.kind = "outline-frame")
    => LET s == out.value.scale
           t == inp.settings.frameThickness
           w == inp.settings.width
           outer2 == Abs(ShoelaceFrom(out.value.outer, 1))
           hole2 == Abs(ShoelaceFrom(out.value.holePoints, 1))
           u == out.value.holeUnit
       IN  /\ s[2] > 0
           /\ 2 * s[1] >= s[2]
           /\ (t \in FrameThicknessRange /\ w \in WidthRange)
                => /\ s[1] < s[2]
                   /\ s[1] * w = s[2] * (w - 2 * t)
                   /\ outer2 > 0
                   /\ hole2 < outer2 * u * u
                   /\ hole2 = outer2 * (Len(out.value.outer) * s[1]) * (Len(out.value.outer) * s[1])

\* The thickest wall on the narrowest cutter, and a wall so thick that the
\* clamp decides the scale.
C7_Witness ==
  /\ out.op = "createCutterFrame"
  /\ inp.kind = "outline-frame"
  /\ \/ /\ inp.settings.frameThickness = FrameThicknessMax
        /\ inp.settings.width = 10 * WidthMinMm
        /\ out.value.scale = <<2, 3>>
     \/ /\ inp.settings.frameThickness = 2000
        /\ out.value.scale = <<1, 2>>

\* C8 (as claimed): each builder returns an empty geometry when the contour
\* set it is to extrude is empty or its extrusion depth is not positive.
C8_EmptyOnDegenerate ==
  /\ (out.op = "createStampGeometry"
        /\ (Len(Trace(StampThreshold(inp.img, inp.settings), inp.img)) = 0
              \/ inp.settings.detailHeight <= 0))
       => out.value.empty
  /\ (out.op = "createBasePlate" /\ inp.kind = "build"
        /\ inp.settings.baseThickness <= 0)
       => out.value.empty
  /\ (out.op = "createCutterFrame" /\ inp.kind = "build"
        /\ inp.settings.frameHeight + inp.settings.baseThickness <= 0)
       => out.value.empty

\* The planar extent of the displayed assembly (the parts that have
\* vertices), as numerators over the common denominator AssemblyDen.
Parts == {g \in {stampGeometry, frameGeometry, baseGeometry} : ~g.empty}

AssemblyDen ==
  (IF stampGeometry.empty THEN 1 ELSE stampGeometry.den)
    * (IF frameGeometry.empty THEN 1 ELSE frameGeometry.den)
    * (IF baseGeometry.empty THEN 1 ELSE baseGeometry.den)

ExtentX ==
  SetMax({g.x1 * (AssemblyDen \div g.den) : g \in Parts})
    - SetMin({g.x0 * (AssemblyDen \div g.den) : g \in Parts})

ExtentY ==
  SetMax({g.y1 * (AssemblyDen \div g.den) : g \in Parts})
    - SetMin({g.y0 * (AssemblyDen \div g.den) : g \in Parts})

\* C9 (as claimed): once the latest run has applied its parts, the larger of
\* the assembly's X and Y extents is within 1% of settings.width.
C9_MaxPlanarExtent ==
  (epoch \in Requests /\ req[epoch].outcome = "applied")
    => LET e == Max2(ExtentX, ExtentY)
           w == settings.width * AssemblyDen
       IN  100 * Abs(e - w) <= w

\* C9 (amended): once the latest run has applied its parts for shape
\* rectangle or circle, or in the rectangle fallback, the base plate's X
\* extent is settings.width and the wall's X extent is settings.width plus
\* twice frameThickness.
C9_FootprintWidth ==
  (epoch \in Requests /\ req[epoch].outcome = "applied"
     /\ req[epoch].branch \in {"primitive", "fallback"})
    => /\ baseGeometry.x1 - baseGeometry.x0 = settings.width * baseGeometry.den
       /\ frameGeometry.x1 - frameGeometry.x0
            = (settings.width + 2 * settings.frameThickness) * frameGeometry.den

\* A 90 x 60 mm rectangle with its fitted stamp on display: the wall spans
\* 94 mm.
C9_Witness ==
  /\ epoch \in Requests
  /\ req[epoch].outcome = "applied"
  /\ settings.shape = "rectangle"
  /\ settings.height # settings.width
  /\ ~stampGeometry.empty
  /\ ExtentX = 940 * AssemblyDen

\* C10: the all-white image with the default settings.  Neither binarization
\* finds a content pixel, the silhouette pass returns no contour, the run does
\* not end in the catch block, and what it applies is an empty relief with the
\* rectangular wall and base of the default width, height and thicknesses.
C10_AllWhite ==
  \A r \in Requests :
    (req[r].pc = "done" /\ req[r].imageSrc = White
       /\ req[r].settings = DefaultSettings /\ req[r].outcome # "load-failed")
      => /\ ContentPixels(BinarizeBase(White)) = {}
         /\ ContentPixels(StampThreshold(White, DefaultSettings)) = {}
         /\ req[r].silhouette = "none"
         /\ req[r].branch = "fallback"
         /\ req[r].outcome \in {"applied", "dropped"}
         /\ r \notin reported
         /\ req[r].stampGeo.empty
         /\ (req[r].outcome = "applied" /\ r = epoch)
              => LET d == DefaultSettings
                 IN  /\ stampGeometry.empty
                     /\ baseGeometry =
                          [empty |-> FALSE, kind |-> "box",
                           x0 |-> 0 - d.width, x1 |-> d.width,
                           y0 |-> 0 - d.height, y1 |-> d.height, den |-> 2,
                           z0 |-> 0 - d.baseThickness, z1 |-> 0]
                     /\ frameGeometry =
                          [empty |-> FALSE, kind |-> "wall-rectangle",
                           x0 |-> 0 - d.width - 2 * d.frameThickness,
                           x1 |-> d.width + 2 * d.frameThickness,
                           y0 |-> 0 - d.height - 2 * d.frameThickness,
                           y1 |-> d.height + 2 * d.frameThickness, den |-> 2,
                           z0 |-> 0 - d.baseThickness, z1 |-> d.frameHeight,
                           outer |-> RectangleOuter(d.width, d.height, d.frameThickness),
                           holePoints |-> RectangleHole(d.width, d.height),
                           holeUnit |-> 2]

C10_Witness ==
  /\ epoch \in Requests
  /\ imageSrc = White
  /\ settings = DefaultSettings
  /\ req[epoch].outcome = "applied"
  /\ req[epoch].silhouette = "none"
  /\ stampGeometry = EmptyGeometry
  /\ frameGeometry.kind = "wall-rectangle"
  /\ baseGeometry.kind = "box"
  /\ isProcessing = FALSE

\* The image and the nine settings the geometry is computed from.
GeometryInputs(img, s) ==
  <<img, s.threshold, s.invert, s.detailHeight, s.width, s.height, s.shape,
    s.frameHeight, s.frameThickness, s.baseThickness>>

\* C11: every step that changes the image or one of the nine settings the
\* geometry is computed from starts a new run of generate: the step clears
\* the stamp, the wall and the base, the new run has captured the new image
\* and settings, and every earlier run is superseded.  No slot ever shows a
\* part set by a run other than the latest, and what the latest run has
\* applied is what the builders give for the current image and settings, all
\* three parts.
C11_RecomputeOnChange ==
  /\ [](\A a \in {"stamp", "frame", "base"} : owner[a] \in {0, epoch})
  /\ []((epoch \in Requests /\ req[epoch].outcome = "applied")
          => LET ctx == seen[epoch].ctx[1]
                 stampGeo == createStampGeometry(imageSrc, settings, ctx)
                 s == IF req[epoch].branch = "fallback"
                      THEN FallbackSettings(settings) ELSE settings
             IN  /\ req[epoch].branch \in {"primitive", "fallback"}
                 /\ stampGeometry = IF req[epoch].branch = "primitive"
                                     THEN FitStamp(stampGeo, settings) ELSE stampGeo
                 /\ frameGeometry = createCutterFrame(s, NoShape)
                 /\ baseGeometry = createBasePlate(s, NoShape))
  /\ [][ GeometryInputs(imageSrc', settings') # GeometryInputs(imageSrc, settings)
           => /\ epoch' = epoch + 1
              /\ Slots' = <<NoGeometry, NoGeometry, NoGeometry>>
              /\ req'[epoch'].isMounted
              /\ req'[epoch'].imageSrc = imageSrc'
              /\ req'[epoch'].settings = settings'
              /\ \A r \in 1..epoch : ~req'[r].isMounted
      ]_vars

\* The base thickness alone was changed after a run had applied its parts:
\* the second run has applied a base plate of the new thickness.
C11_Witness ==
  /\ epoch = 2
  /\ req[1].outcome = "applied"
  /\ req[2].outcome = "applied"
  /\ req[1].imageSrc = req[2].imageSrc
  /\ req[2].settings = [req[1].settings EXCEPT !.baseThickness = AltSettings.baseThickness]
  /\ baseGeometry = req[2].baseGeo
  /\ baseGeometry # req[1].baseGeo
  /\ ~stampGeometry.empty

C13_OutlineScale ==
  \A r \in Requests :
    (req[r].pc = "done" /\ seen[r].shape # NoShape)
      => LET s == req[r].settings
             wall == flipGeometryY(createCutterFrame(s, seen[r].shape))
             base == flipGeometryY(createBasePlate(s, seen[r].shape))
             stamp == createStampGeometry(req[r].imageSrc, s, seen[r].ctx[1])
             frameW == wall.x1 - wall.x0
             Scaled(g) == IF frameW > 0 THEN ScaleXY(g, s.width, frameW * wall.den)
                          ELSE g
         IN  /\ req[r].branch = "outline"
             /\ req[r].outcome \in {"applied", "dropped"}
             /\ req[r].frameGeo = Scaled(wall)
             /\ req[r].baseGeo = Scaled(base)
             /\ req[r].stampGeo = Scaled(stamp)
             /\ frameW > 0
                  => req[r].frameGeo.x1 - req[r].frameGeo.x0
                       = s.width * req[r].frameGeo.den

\* C15 (as claimed): a run that got a silhouette for shape 'outline' does not
\* end in the catch block; it reaches the setters with a wall and a base whose
\* Y extents are those of the built wall and base negated once (and scaled),
\* and with the stamp as createStampGeometry returned it (flipped once there,
\* and scaled), and the latest such run has put all three on display.
C15_FlipOnce ==
  \A r \in Requests :
    (req[r].pc = "done" /\ req[r].settings.shape = "outline"
       /\ req[r].silhouette = "found")
      => LET s == req[r].settings
             wall == createCutterFrame(s, seen[r].shape)
             base == createBasePlate(s, seen[r].shape)
             frameW == wall.x1 - wall.x0
         IN  /\ r \notin reported
             /\ req[r].outcome \in {"applied", "dropped"}
             /\ req[r].frameGeo.y0 * frameW = (0 - wall.y1) * s.width * req[r].frameGeo.den
             /\ req[r].frameGeo.y1 * frameW = (0 - wall.y0) * s.width * req[r].frameGeo.den
             /\ req[r].baseGeo.y0 * frameW = (0 - base.y1) * s.width * req[r].baseGeo.den
             /\ req[r].baseGeo.y1 * frameW = (0 - base.y0) * s.width * req[r].baseGeo.den
             /\ req[r].stampGeo.y1 <= 0
             /\ r = epoch
                  => /\ req[r].outcome = "applied"
                     /\ Slots = <<req[r].stampGeo, req[r].frameGeo, req[r].baseGeo>>
                     /\ frameGeometry # NoGeometry

\* C14 (as claimed): for shape rectangle and circle the fitted stamp keeps
\* its aspect, its bounding box is no wider than 90% of settings.width and no
\* higher than 90% of settings.height, and its centre is the planar origin.
C14_FitWithinMargin ==
  (out.op = "FitStamp" /\ ~inp.stampGeo.empty)
    => LET g == out.value
           s == inp.settings
           W == g.x1 - g.x0
           H == g.y1 - g.y0
       IN  /\ W * (inp.stampGeo.y1 - inp.stampGeo.y0)
                = H * (inp.stampGeo.x1 - inp.stampGeo.x0)
           /\ 10 * W <= 9 * s.width * g.den
           /\ 10 * H <= 9 * s.height * g.den
           /\ g.x0 + g.x1 = 0
           /\ g.y0 + g.y1 = 0

\* C14 (amended): the margin is 5% of settings.width on both axes.  The
\* fitted stamp keeps its aspect, its bounding box is no wider than
\* settings.width less 10% of the width and no higher than settings.height
\* less 10% of the width, it reaches one of the two limits, and its centre is
\* the planar origin.
C14_FitWithinWidthMargin ==
  (out.op = "FitStamp" /\ ~inp.stampGeo.empty)
    => LET g == out.value
           s == inp.settings
           W == g.x1 - g.x0
           H == g.y1 - g.y0
       IN  /\ W * (inp.stampGeo.y1 - inp.stampGeo.y0)
                = H * (inp.stampGeo.x1 - inp.stampGeo.x0)
           /\ 10 * W <= 9 * s.width * g.den
           /\ 10 * H <= (10 * s.height - s.width) * g.den
           /\ \/ 10 * W = 9 * s.width * g.den
              \/ 10 * H = (10 * s.height - s.width) * g.den
           /\ g.x0 + g.x1 = 0
           /\ g.y0 + g.y1 = 0
           /\ g.z0 = inp.stampGeo.z0 /\ g.z1 = inp.stampGeo.z1

\* The tall relief on a 90 x 95 mm rectangle: fitted by its height, it is
\* 86 mm high, more than 90% of 95 mm.
C14_Witness ==
  /\ out.op = "FitStamp"
  /\ inp.stampGeo = StampBox(0, 300, PROCESS_RES)
  /\ inp.settings.shape = "rectangle"
  /\ inp.settings.width = 900
  /\ inp.settings.height = 950
  /\ out.value.y1 - out.value.y0 = 860 * out.value.den
  /\ out.value.x0 + out.value.x1 = 0

\* C16: for every shape kind and every baseThickness > 0, the plate that
\* createBasePlate returns extends on the build axis from -baseThickness to 0.
C16_BaseTopAtZero ==
  (out.op = "createBasePlate" /\ inp.settings.baseThickness > 0)
    => /\ ~out.value.empty
       /\ out.value.z0 = 0 - inp.settings.baseThickness
       /\ out.value.z1 = 0
       /\ out.value.kind = IF inp.settings.shape = "outline" /\ inp.shape # NoShape
                           THEN "base-outline"
                           ELSE IF inp.settings.shape = "rectangle" THEN "box"
                                ELSE "cylinder"

\* A cylinder 3 mm thick.
C16_Witness ==
  /\ out.op = "createBasePlate"
  /\ inp.settings.shape = "circle"
  /\ inp.settings.baseThickness = 30
  /\ out.value.kind = "cylinder"
  /\ out.value.z0 = 0 - 30
  /\ out.value.z1 = 0

\* C17: for every shape kind and positive frameHeight and baseThickness, the
\* wall that createCutterFrame returns extends on the build axis from
\* -baseThickness to frameHeight, frameHeight + baseThickness in all, and its
\* bottom is the bottom of the base plate built from the same arguments.
C17_WallExtent ==
  (out.op = "createCutterFrame" /\ inp.kind = "build"
     /\ inp.settings.baseThickness > 0 /\ inp.settings.frameHeight > 0)
    => /\ ~out.value.empty
       /\ out.value.z0 = 0 - inp.settings.baseThickness
       /\ out.value.z1 = inp.settings.frameHeight
       /\ out.value.z1 - out.value.z0
            = inp.settings.frameHeight + inp.settings.baseThickness
       /\ out.value.z0 = createBasePlate(inp.settings, inp.shape).z0

\* An outline wall 5 mm high on a base 3 mm thick.
C17_Witness ==
  /\ out.op = "createCutterFrame"
  /\ inp.kind = "build"
  /\ out.value.kind = "wall-outline"
  /\ inp.settings.baseThickness = 30
  /\ inp.settings.frameHeight = 50
  /\ out.value.z0 = 0 - 30
  /\ out.value.z1 = 50

\* The points of a list, and the corners of a box lo..hi.
PointSet(points) == {points[i] : i \in 1..Len(points)}

Corners(x0, x1, y0, y1) == {<<x0, y0>>, <<x1, y0>>, <<x1, y1>>, <<x0, y1>>}

\* C18: for shape rectangle the wall's hole is the rectangle of the base
\* plate built from the same settings (width x height, centred) and its outer
\* profile that rectangle grown by frameThickness on every side; for shape
\* circle the hole is the circle of the base plate (diameter width, centred)
\* and the outer profile the circle of radius width / 2 + frameThickness.
C18_HoleIsFootprint ==
  (out.op = "createCutterFrame" /\ inp.kind = "build"
     /\ inp.settings.shape \in {"rectangle", "circle"})
    => LET wall == out.value
           base == createBasePlate(inp.settings, inp.shape)
           s == inp.settings
           t2 == 2 * s.frameThickness
           OnCircle(points, d) ==
             \A p \in PointSet(points) : p[1] * p[1] + p[2] * p[2] = d * d
       IN  /\ wall.holeUnit = base.den
           /\ wall.den = base.den
           /\ base.x1 - base.x0 = s.width * base.den
           /\ base.x0 + base.x1 = 0 /\ base.y0 + base.y1 = 0
           /\ <<wall.x0, wall.x1, wall.y0, wall.y1>>
                = <<base.x0 - t2, base.x1 + t2, base.y0 - t2, base.y1 + t2>>
           /\ s.shape = "rectangle"
                => /\ base.kind = "box"
                   /\ base.y1 - base.y0 = s.height * base.den
                   /\ PointSet(wall.holePoints)
                        = Corners(base.x0, base.x1, base.y0, base.y1)
                   /\ PointSet(wall.outer)
                        = Corners(base.x0 - t2, base.x1 + t2, base.y0 - t2, base.y1 + t2)
           /\ s.shape = "circle"
                => /\ base.kind = "cylinder"
                   /\ base.y1 - base.y0 = s.width * base.den
                   /\ OnCircle(wall.holePoints, base.x1)
                   /\ OnCircle(wall.outer, base.x1 + t2)

\* A 90 x 60 mm rectangle: the hole's corners are the base plate's.
C18_Witness ==
  /\ out.op = "createCutterFrame"
  /\ inp.kind = "build"
  /\ inp.settings.shape = "rectangle"
  /\ inp.settings.height = 600
  /\ out.value.holePoints[3] = <<900, 600>>
  /\ out.value.outer[3] = <<940, 640>>

\* C19 (as claimed): in every wall that createCutterFrame builds, the signed
\* area of the hole's point list and the signed area of the outer point list
\* have opposite signs.
C19_OppositeWinding ==
  (out.op = "createCutterFrame" /\ inp.kind = "build")
    => LET outerArea2 == ShoelaceFrom(out.value.outer, 1)
           holeArea2 == ShoelaceFrom(out.value.holePoints, 1)
       IN  \/ outerArea2 > 0 /\ holeArea2 < 0
           \/ outerArea2 < 0 /\ holeArea2 > 0

\* C20: after the three passes, the base mask's content pixels are the
\* pixels whose average is below 200, and every one of them is inside the
\* bubble (below 240 after the blur, black in the expanded mask).
C20_BubbleContainsBase ==
  (out.op = "pass3")
    => /\ ContentPixels(out.canvas)
            = {i \in 1..Len(inp.img) : inp.img[i] < ContentCutoff}
       /\ ContentPixels(out.canvas) \subseteq ContentPixels(out.bubbleData)
       /\ Len(out.bubbleData) = Len(inp.img)

\* A content pixel between a white pixel and one just under the second
\* cut-off.
C20_Witness ==
  /\ out.op = "pass3"
  /\ inp.img = <<255, ContentCutoff - 1, cutThreshold>>
  /\ ContentPixels(out.canvas) = {2}
  /\ 2 \in ContentPixels(out.bubbleData)

\* C21: a generation leaves the settings it was given as they were.  From
\* the step that starts a run to its end and after, the settings and the
\* image that the run captured do not change, whatever branch it takes
\* (the rectangle fallback included) and however it ends; a step of a run
\* leaves the settings prop unchanged; and what a run has built is what the
\* builders give for its captured image and settings (the fallback: for
\* those settings with shape 'rectangle'), also when the props have changed
\* while it was in flight.
C21_SettingsSnapshot ==
  /\ [][ /\ \A r \in Requests :
               req[r].pc # "idle"
                 => /\ req'[r].settings = req[r].settings
                    /\ req'[r].imageSrc = req[r].imageSrc
         /\ (epoch' = epoch /\ req' # req) => settings' = settings
         /\ (epoch' # epoch) => req'[epoch'].settings = settings'
        ]_vars
  /\ [](\A r \in Requests :
          (req[r].pc = "done" /\ req[r].outcome \in {"applied", "dropped"})
            => LET s == req[r].settings
                   stampGeo == createStampGeometry(req[r].imageSrc, s, seen[r].ctx[1])
                   rect == [s EXCEPT !.shape = "rectangle"]
               IN  /\ (req[r].branch = "primitive")
                        => /\ s.shape \in {"rectangle", "circle"}
                           /\ req[r].stampGeo = FitStamp(stampGeo, s)
                           /\ req[r].frameGeo = createCutterFrame(s, NoShape)
                           /\ req[r].baseGeo = createBasePlate(s, NoShape)
                   /\ (req[r].branch = "fallback")
                        => /\ s.shape = "outline"
                           /\ req[r].stampGeo = stampGeo
                           /\ req[r].frameGeo = createCutterFrame(rect, NoShape)
                           /\ req[r].baseGeo = createBasePlate(rect, NoShape))

\* A run took the rectangle fallback after the props had changed: it built
\* the rectangle of its own settings, which still say 'outline'.
C21_Witness ==
  /\ epoch = 2
  /\ req[1].pc = "done"
  /\ req[1].branch = "fallback"
  /\ req[1].outcome = "dropped"
  /\ req[1].settings = [DefaultSettings EXCEPT !.invert = TRUE]
  /\ settings = [DefaultSettings EXCEPT !.shape = "circle"]
  /\ req[1].frameGeo.kind = "wall-rectangle"
  /\ ~req[1].stampGeo.empty

\* C22: the stamp, wall and base slots are all null or all set.  When they
\* are set, one run has set all three, in one step, to the three solids it
\* had built; a run that has failed or was superseded has set none.
C22_AllOrNone ==
  \/ /\ Slots = <<NoGeometry, NoGeometry, NoGeometry>>
     /\ owner = NoOwner
  \/ /\ stampGeometry # NoGeometry
     /\ frameGeometry # NoGeometry
     /\ baseGeometry # NoGeometry
     /\ \E r \in Requests :
          /\ owner = [stamp |-> r, frame |-> r, base |-> r]
          /\ req[r].outcome = "applied"
          /\ Slots = <<req[r].stampGeo, req[r].frameGeo, req[r].baseGeo>>

\* A run failed after it had built its stamp (nothing of it was shown), and
\* the next run, a circle, has put its three parts on display.
C22_Witness ==
  /\ epoch = 2
  /\ req[1].outcome = "threw"
  /\ ~req[1].stampGeo.empty
  /\ req[2].outcome = "applied"
  /\ req[2].branch = "primitive"
  /\ stampGeometry # NoGeometry
  /\ frameGeometry.kind = "wall-circle"
  /\ baseGeometry.kind = "cylinder"

\* C23 (as claimed): isProcessing is true while the latest request's work
\* is in flight, and once every request made has ended (applied, dropped,
\* failed, or skipped for a null image) isProcessing is false.
C23_ProcessingSettles ==
  /\ (epoch \in Requests /\ req[epoch].pc \in {"stamp", "silhouette"})
       => isProcessing
  /\ (epoch \in Requests /\ \A r \in 1..epoch : req[r].pc = "done")
       => ~isProcessing

\* C24: one export per click.  Every export is made with a trigger other
\* than 0; once the effects of a click have run, the trigger is 0 again and
\* there have been exactly as many exports as clicks; between a click and
\* its export the trigger is 1 and one export is missing; and the run of the
\* effect that follows the reset exports nothing.
C24_OneExportPerClick ==
  /\ \A i \in 1..Len(exports) : exports[i].trigger # 0
  /\ Len(exports) <= clicks
  /\ (Mounted /\ exportDep = exportTrigger)
       => (exportTrigger = 0 /\ Len(exports) = clicks)
  /\ (Mounted /\ exportDep # exportTrigger /\ exportTrigger # 0)
       => (exportTrigger = 1 /\ Len(exports) = clicks - 1)
  /\ (Mounted /\ exportDep # exportTrigger /\ exportTrigger = 0)
       => Len(exports) = clicks
  /\ ~Mounted => (exportTrigger = 0 /\ clicks = 0)

\* Two clicks, two exports, the trigger back at 0 and the effect at rest.
C24_Witness ==
  /\ clicks = 2
  /\ Len(exports) = 2
  /\ exportTrigger = 0
  /\ exportDep = 0
  /\ exports[1].trigger = 1
  /\ exports[2].trigger = 1

\* C25 (as claimed): whenever the export effect serializes the group, the
\* stamp, the wall and the base are all in it, all three set by the latest
\* generation run, and that run has ended and has applied its parts (it is
\* not in flight and has not failed).
C25_ExportComplete ==
  \A i \in 1..Len(exports) :
    LET e == exports[i]
    IN  /\ e.stamp /\ e.frame /\ e.base
        /\ e.owner = [stamp |-> e.epoch, frame |-> e.epoch, base |-> e.epoch]
        /\ e.pc = "done"
        /\ e.outcome = "applied"

\* C26: the silhouette does not depend on the relief settings.  Two runs on
\* the same image whose settings differ at most in threshold and invert, and
\* whose silhouette passes got the same answer from getContext, have got the
\* same silhouette (or both none), whatever the two thresholds and invert
\* flags and whatever relief each run has built.
C26_SilhouetteIgnoresRelief ==
  \A a, b \in Requests :
    (/\ req[a].silhouette # "pending" /\ req[b].silhouette # "pending"
     /\ req[a].imageSrc = req[b].imageSrc
     /\ [req[a].settings EXCEPT !.threshold = 0, !.invert = FALSE]
          = [req[b].settings EXCEPT !.threshold = 0, !.invert = FALSE]
     /\ seen[a].ctx[2] = seen[b].ctx[2])
      => /\ seen[a].shape = seen[b].shape
         /\ req[a].silhouette = req[b].silhouette

\* The image with a pixel of average 180: at threshold 100 it has no relief
\* and at threshold 220, inverted, another one, and both runs have found
\* the same silhouette around that pixel.
C26_Witness ==
  /\ epoch = 2
  /\ imageSrc = Grey
  /\ req[1].settings.threshold = 100
  /\ ~req[1].settings.invert
  /\ req[2].settings.threshold = 220
  /\ req[2].settings.invert
  /\ req[1].stampGeo.empty
  /\ ~req[2].stampGeo.empty
  /\ req[1].silhouette = "found"
  /\ req[2].silhouette = "found"
  /\ seen[1].shape = seen[2].shape
  /\ seen[1].shape # NoShape

\* The design with id n is in the list with the given status.
HasStatus(n, status) ==
  \E k \in 1..Len(designs) : designs[k].id = n /\ designs[k].status = status

C30_CircleIsRound ==
  /\ settings.shape = "circle" => settings.height = settings.width
  /\ (out.op = "shape" /\ settings.shape = "circle")
       => /\ settings.width = out.before.width
          /\ settings.height = out.before.width
  /\ (out.op = "dimension" /\ out.before.shape = "circle")
       => /\ settings.shape = "circle"
          /\ settings.width = settings.height
          /\ settings.width \in DimensionPool

\* The Circle button was clicked on a 150 x 30 mm rectangle: the circle's
\* diameter and height are 150 mm.
C30_Witness ==
  /\ out.op = "shape"
  /\ out.before.shape = "rectangle"
  /\ out.before.width = 10 * WidthMaxMm
  /\ out.before.height = 10 * WidthMinMm
  /\ settings.shape = "circle"
  /\ settings.width = 10 * WidthMaxMm
  /\ settings.height = 10 * WidthMaxMm

====
